---- MODULE Spec2Model ----
(***************************************************************************)
(* A model of TFLiteModel (src/models/nessi/tflite_tools/tflite_model.py): *)
(* the graph builder, the memoized search for the operator order of least  *)
(* peak memory, the lifetime analysis of the stored order, and the         *)
(* in-place rewrite of the operator offset vector of the serialized model. *)
(*                                                                         *)
(* Tensors and operators are numbered from 0 as in the source.  A Python   *)
(* list is a sequence, so list[i] is seq[i + 1].  An operator object is    *)
(* named by the index it was built at (its key); its mutable id is a field *)
(* of the object.                                                          *)
(***************************************************************************)
EXTENDS Integers, Sequences, FiniteSets, TLC

\* ------------------------------------------------------------------ bounds
\* Most operators of a model.
MaxOps == 3
\* Tensors of a model: ids 0 .. MaxTensors - 1.
MaxTensors == 4
\* Largest byte size of a tensor (product of its shape times its element size).
MaxSize == 2
\* Most graph outputs of a model.
MaxOutputs == 2
\* Most input slots of the operators of a model together.
MaxSlots == 3

\* --------------------------------------------------------- program constants
\* The -1 of an input slot: an absent (optional) input.
AbsentIndex == -1
\* None, for a reference to a tensor or an operator (ids are never negative).
None == -1
\* The bytes of one slot of the operator offset vector (a 32-bit uoffset).
SlotBytes == 4
\* sys.maxsize, the search's initial minimum.  It is 2^63 - 1 in CPython and TLC's
\* integers have 32 bits: the code only compares it with sums of tensor sizes and
\* adds such sums to it, so any value above every such sum orders the same way.
SysMaxsize == 1000000

\* ------------------------------------------------------------------ helpers
Max(a, b) == IF a >= b THEN a ELSE b

Range(s) == {s[k] : k \in DOMAIN s}

\* seq[j] of a Python list of length n: j in -n .. n-1, a negative j counting from
\* the end; anything else raises IndexError.
PyIndexOk(n, j) == j >= -n /\ j < n

PyIndex(n, j) == IF j >= 0 THEN j ELSE n + j

\* ------------------------------------------------------ the serialized model
\* model_bytes, as far as the program reads it: the tensor table (sizes[t + 1] is
\* tensor t's byte size), the operator sub-tables by address (heap), the operator
\* offset vector (table[i + 1] is slot i), and the subgraph's inputs and outputs.
\* Addresses count from the first slot of the vector: slot i is at SlotBytes * i
\* and holds the distance from itself to its operator's sub-table.
SlotAddress(i) == SlotBytes * i

\* subgraph.Operators(i): the address of the sub-table slot i designates.
OperatorPos(bytes, i) == SlotAddress(i) + bytes.table[i + 1]

OperatorsLength(bytes) == Len(bytes.table)

TensorsLength(bytes) == Len(bytes.sizes)

VARIABLES
    model_bytes,    \* the serialized model
    model_graph,    \* the graph built from it
    peak_usage,     \* the cached result of the search, or unset
    status,         \* "new": before __init__; "ready": constructed; "failed"
    ret,            \* what the last call returned, printed or raised
    optimized       \* history: an optimize_memory call has returned normally

vars == <<model_bytes, model_graph, peak_usage, status, ret, optimized>>

\* ------------------------------------------------------------ TFLiteOperator
\* TFLiteOperator.non_empty_inputs: the inputs that are not None, in slot order.
non_empty_inputs(op) == SelectSeq(op.inputs, LAMBDA x : x # None)

\* ------------------------------------------------------------- _build_graph
\* The exception the loop body of _build_graph raises on sub-table sub, or "None".
OperatorError(nT, sub) ==
    IF Len(sub.outputs) > 1 THEN "AssertionError"
    ELSE IF \E k \in DOMAIN sub.inputs :
                sub.inputs[k] # AbsentIndex /\ ~PyIndexOk(nT, sub.inputs[k])
         THEN "IndexError"
    ELSE IF Len(sub.inputs) = 0 THEN "AssertionError"
    ELSE IF Len(sub.outputs) = 1 /\ ~PyIndexOk(nT, sub.outputs[1]) THEN "IndexError"
    ELSE IF Len(sub.outputs) = 0 THEN "AttributeError"
    ELSE "None"

\* inputs = [tensors[j] if j != -1 else None for j in op.InputsAsNumpy()]
ResolveInputs(nT, slots) ==
    [k \in DOMAIN slots |->
        IF slots[k] # AbsentIndex THEN PyIndex(nT, slots[k]) ELSE None]

\* for t in tflite_op.non_empty_inputs: t.consumers.append(tflite_op)
RECURSIVE AppendConsumer(_, _, _, _)
AppendConsumer(consumers, ins, k, key) ==
    IF k > Len(ins) THEN consumers
    ELSE AppendConsumer([consumers EXCEPT ![ins[k]] = Append(@, key)], ins, k + 1, key)

\* The loop over the operator vector, from slot i on.  acc holds the exception
\* raised so far ("None": none), the operator objects built, and the tensors'
\* producer and consumers.
RECURSIVE BuildOperators(_, _, _)
BuildOperators(bytes, i, acc) ==
    IF acc.err # "None" \/ i >= OperatorsLength(bytes) THEN acc
    ELSE LET nT == TensorsLength(bytes)
             pos == OperatorPos(bytes, i)
             sub == bytes.heap[pos]
             e == OperatorError(nT, sub)
         IN  IF e # "None" THEN [acc EXCEPT !.err = e]
             ELSE LET out == PyIndex(nT, sub.outputs[1])
                      tflite_op == [id |-> i, output |-> out,
                                    inputs |-> ResolveInputs(nT, sub.inputs),
                                    pos |-> pos]
                  IN  BuildOperators(bytes, i + 1,
                        [err |-> "None",
                         ops |-> Append(acc.ops, tflite_op),
                         producer |-> [acc.producer EXCEPT ![out] = i],
                         consumers |-> AppendConsumer(acc.consumers,
                                            non_empty_inputs(tflite_op), 1, i)])

\* _compute_predecessors(tensor): the memoized recursion.  P.done holds the tensors
\* whose predecessors is not None, P.pred their sets.  A tensor met again while its
\* own call is still running is in P.done already, and its set as built so far comes
\* back: nothing detects the cycle.
RECURSIVE _compute_predecessors(_, _, _)
RECURSIVE PredecessorsLoop(_, _, _, _, _)
_compute_predecessors(g, tensor, P) ==
    IF tensor \in P.done THEN P
    ELSE IF g.producer[tensor] = None
         THEN [done |-> P.done \cup {tensor}, pred |-> [P.pred EXCEPT ![tensor] = {}]]
    ELSE LET op_inputs == non_empty_inputs(g.ops[g.producer[tensor] + 1])
         IN  PredecessorsLoop(g, tensor, op_inputs, 1,
                [done |-> P.done \cup {tensor},
                 pred |-> [P.pred EXCEPT ![tensor] = Range(op_inputs)]])

\* for i in op_inputs: tensor.predecessors |= _compute_predecessors(i)
PredecessorsLoop(g, tensor, op_inputs, k, P) ==
    IF k > Len(op_inputs) THEN P
    ELSE LET P1 == _compute_predecessors(g, op_inputs[k], P)
         IN  PredecessorsLoop(g, tensor, op_inputs, k + 1,
                [P1 EXCEPT !.pred[tensor] = @ \cup P1.pred[op_inputs[k]]])

\* for o in outputs: _compute_predecessors(o)
RECURSIVE PredecessorsOfOutputs(_, _, _, _)
PredecessorsOfOutputs(g, outputs, k, P) ==
    IF k > Len(outputs) THEN P
    ELSE PredecessorsOfOutputs(g, outputs, k + 1, _compute_predecessors(g, outputs[k], P))

\* model_graph before _build_graph has run.
NoGraph ==
    [shape_bytes |-> <<>>, ops |-> <<>>, operators |-> <<>>, producer |-> <<>>,
     consumers |-> <<>>, done |-> {}, predecessors |-> <<>>, is_constant |-> <<>>,
     inputs |-> <<>>, outputs |-> <<>>]

\* _build_graph: [err |-> the exception raised or "None", graph |-> the graph].
\* g.ops[k + 1] is the operator object built at index k and g.operators the list of
\* the objects' keys; the tensors are 0 .. nT - 1, their fields functions of the id.
BuildGraph(bytes) ==
    LET nT == TensorsLength(bytes)
        T == 0 .. nT - 1
        built == BuildOperators(bytes, 0,
                    [err |-> "None", ops |-> <<>>,
                     producer |-> [t \in T |-> None],
                     consumers |-> [t \in T |-> <<>>]])
        badRef == \/ \E j \in Range(bytes.inputs) : ~PyIndexOk(nT, j)
                  \/ \E j \in Range(bytes.outputs) : ~PyIndexOk(nT, j)
        inputs == [k \in DOMAIN bytes.inputs |-> PyIndex(nT, bytes.inputs[k])]
        outputs == [k \in DOMAIN bytes.outputs |-> PyIndex(nT, bytes.outputs[k])]
        g0 == [shape_bytes |-> [t \in T |-> bytes.sizes[t + 1]],
               ops |-> built.ops,
               operators |-> [k \in DOMAIN built.ops |-> k - 1],
               producer |-> built.producer,
               consumers |-> built.consumers,
               done |-> {},
               predecessors |-> [t \in T |-> {}],
               is_constant |-> [t \in T |->
                    built.producer[t] = None /\ t \notin Range(inputs)],
               inputs |-> inputs,
               outputs |-> outputs]
        P == PredecessorsOfOutputs(g0, outputs, 1, [done |-> {}, pred |-> g0.predecessors])
    IN  IF built.err # "None" THEN [err |-> built.err, graph |-> NoGraph]
        ELSE IF badRef THEN [err |-> "IndexError", graph |-> NoGraph]
        ELSE [err |-> "None",
              graph |-> [g0 EXCEPT !.done = P.done, !.predecessors = P.pred]]

\* ------------------------------------------------------------- TFLiteTensor
\* len(g.tensors)
NumTensors(g) == Cardinality(DOMAIN g.shape_bytes)

\* TFLiteTensor.size: 0 for a constant.
TensorSize(g, t) == IF g.is_constant[t] THEN 0 ELSE g.shape_bytes[t]

\* TFLiteModel._cum_tensor_sizes over a set of tensors.
RECURSIVE _cum_tensor_sizes(_, _)
_cum_tensor_sizes(g, tensors) ==
    IF tensors = {} THEN 0
    ELSE LET t == CHOOSE x \in tensors : TRUE
         IN  TensorSize(g, t) + _cum_tensor_sizes(g, tensors \ {t})

\* TFLiteModel._cum_tensor_sizes over a list of tensors (a tensor listed twice
\* counts twice).
RECURSIVE CumTensorSizesOfList(_, _, _)
CumTensorSizesOfList(g, list, k) ==
    IF k > Len(list) THEN 0
    ELSE TensorSize(g, list[k]) + CumTensorSizesOfList(g, list, k + 1)

\* ------------------------------------------- compute_best_peak_memory_usage
\* A faulty variant of AppendProducer, against which C1 is tested: the producer put
\* in front of the upstream order.
PrependProducer(operators, producer) == <<producer>> \o operators

\* op_order = operators + [t.producer]
AppendProducer(operators, producer) == Append(operators, producer)

\* any(t in r.predecessors for r in rest), r from tensor id r on: "True", "False",
\* or "TypeError" when an r is reached whose predecessors is None.
RECURSIVE NeededByRest(_, _, _, _)
NeededByRest(g, t, rest, r) ==
    IF r >= NumTensors(g) THEN "False"
    ELSE IF r \notin rest THEN NeededByRest(g, t, rest, r + 1)
    ELSE IF r \notin g.done THEN "TypeError"
    ELSE IF t \in g.predecessors[r] THEN "True"
    ELSE NeededByRest(g, t, rest, r + 1)

\* mem(tensors).  The lru_cache only saves work: mem is a function of its argument.
\* A call of mem on a set whose own call is still running (stack) never returns:
\* Python ends it with RecursionError, which nothing catches.  The sets hold objects
\* whose hash is their id, below 8, so `for t in tensors` visits them by ascending
\* id, which MemLoop does from tensor id t on.
\* The result is [err |-> exception or "None", peak |-> ..., order |-> keys].
RECURSIVE mem(_, _, _)
RECURSIVE MemLoop(_, _, _, _, _)
mem(g, tensors, stack) ==
    IF tensors \in stack THEN [err |-> "RecursionError", peak |-> 0, order |-> <<>>]
    ELSE LET constants == {t \in tensors : g.producer[t] = None}
         IN  IF constants # {}
             THEN LET up == mem(g, tensors \ constants, stack \cup {tensors})
                  IN  IF up.err # "None" THEN up
                      ELSE [err |-> "None",
                            peak |-> _cum_tensor_sizes(g, constants) + up.peak,
                            order |-> up.order]
             ELSE IF tensors = {} THEN [err |-> "None", peak |-> 0, order |-> <<>>]
             ELSE MemLoop(g, tensors, 0,
                          [err |-> "None", peak |-> SysMaxsize, order |-> <<>>],
                          stack \cup {tensors})

\* The loop `for t in tensors`; acc holds min_use (peak) and op_order (order).
MemLoop(g, tensors, t, acc, stack) ==
    IF t >= NumTensors(g) THEN acc
    ELSE IF t \notin tensors THEN MemLoop(g, tensors, t + 1, acc, stack)
    ELSE LET rest == tensors \ {t}
             needed == NeededByRest(g, t, rest, 0)
         IN  IF needed = "TypeError" THEN [acc EXCEPT !.err = "TypeError"]
             ELSE IF needed = "True" THEN MemLoop(g, tensors, t + 1, acc, stack)
             ELSE LET inputs == Range(non_empty_inputs(g.ops[g.producer[t] + 1]))
                      new_set == rest \cup inputs
                      up == mem(g, new_set, stack)
                      tensors_in_memory == new_set \cup {t}
                      mem_use == Max(up.peak, _cum_tensor_sizes(g, tensors_in_memory))
                  IN  IF up.err # "None" THEN up
                      ELSE IF mem_use < acc.peak
                           THEN MemLoop(g, tensors, t + 1,
                                    [err |-> "None", peak |-> mem_use,
                                     order |-> AppendProducer(up.order, g.producer[t])],
                                    stack)
                           ELSE MemLoop(g, tensors, t + 1, acc, stack)

\* peak_usage before the first search.
NoPeak == [set |-> FALSE, peak |-> 0, order |-> <<>>]

\* compute_best_peak_memory_usage: the cached result if there is one, else
\* mem(frozenset(g.outputs)).
compute_best_peak_memory_usage(g, cached) ==
    IF cached.set THEN [err |-> "None", peak |-> cached.peak, order |-> cached.order]
    ELSE mem(g, Range(g.outputs), {})

\* -------------------------------------------------- _execution_schedule_info
first_used_at(g, t) ==
    IF g.producer[t] # None THEN g.ops[g.producer[t] + 1].id ELSE 0

RECURSIVE MaxConsumerId(_, _, _)
MaxConsumerId(g, consumers, k) ==
    IF k = Len(consumers) THEN g.ops[consumers[k] + 1].id
    ELSE Max(g.ops[consumers[k] + 1].id, MaxConsumerId(g, consumers, k + 1))

last_used_at(g, t) ==
    IF g.consumers[t] # <<>> THEN MaxConsumerId(g, g.consumers[t], 1)
    ELSE Len(g.operators)

\* The working set of operator op: the tensors alive at step op.id.
WorkingSet(g, op) ==
    {t \in DOMAIN g.shape_bytes : first_used_at(g, t) <= op.id /\ op.id <= last_used_at(g, t)}

\* The schedule: one row (op, tensors, mem_use, macs_val, weight_size) for each
\* operator of g.operators, in list order (the last two are 0 by default).
_execution_schedule_info(g) ==
    [k \in DOMAIN g.operators |->
        LET op == g.ops[g.operators[k] + 1]
            tensors == WorkingSet(g, op)
        IN  [op |-> g.operators[k], tensors |-> tensors,
             mem_use |-> _cum_tensor_sizes(g, tensors)]]

\* The fields of a schedule row, and the names peak_memory_usage unpacks a row into.
ScheduleRowFields == 5
PeakUnpackedNames == 4

RECURSIVE MaxMemUse(_, _)
MaxMemUse(schedule, k) ==
    IF k = Len(schedule) THEN schedule[k].mem_use
    ELSE Max(schedule[k].mem_use, MaxMemUse(schedule, k + 1))

\* peak_memory_usage: max(mem_use for (_, _, mem_use, _) in schedule).  Unpacking a
\* row of another length into the four names raises ValueError, and so does max()
\* of no rows.
peak_memory_usage(g) ==
    LET schedule == _execution_schedule_info(g)
    IN  IF schedule = <<>> \/ ScheduleRowFields # PeakUnpackedNames
        THEN [err |-> "ValueError", value |-> 0]
        ELSE [err |-> "None", value |-> MaxMemUse(schedule, 1)]

\* --------------------------------------------------------- plot_memory_usage
\* input_size, output_size and other_size of a schedule row.
input_size(g, row) == CumTensorSizesOfList(g, non_empty_inputs(g.ops[row.op + 1]), 1)

output_size(g, row) == TensorSize(g, g.ops[row.op + 1].output)

other_size(g, row) ==
    LET op == g.ops[row.op + 1]
    IN  _cum_tensor_sizes(g, {t \in row.tensors :
            t \notin Range(non_empty_inputs(op)) /\ t # op.output})

\* assert input_size + output_size + other_size == mem_use
PartitionAssert(g, row) ==
    input_size(g, row) + output_size(g, row) + other_size(g, row) = row.mem_use

\* plot_memory_usage, up to its loop over the schedule: AssertionError at the first
\* row whose assertion fails.
plot_memory_usage(g) ==
    LET schedule == _execution_schedule_info(g)
    IN  IF \E k \in DOMAIN schedule : ~PartitionAssert(g, schedule[k])
        THEN "AssertionError" ELSE "plotted"

\* ----------------------------------------------------------- optimize_memory
\* A faulty variant of correctly_ordered, against which C8 is tested: the stored
\* order is never recognised.
NeverOrdered(g, op_order, i) == "False"

\* all(i == op_order[i].id for i in range(num_operators)), from i on: "True",
\* "False", or "IndexError" when op_order ends before a difference is found.
RECURSIVE correctly_ordered(_, _, _)
correctly_ordered(g, op_order, i) ==
    IF i >= Len(g.operators) THEN "True"
    ELSE IF i >= Len(op_order) THEN "IndexError"
    ELSE IF i # g.ops[op_order[i + 1] + 1].id THEN "False"
    ELSE correctly_ordered(g, op_order, i + 1)

\* A faulty variant of PatchedOffset, against which C6 is tested: the offset copied
\* without the slot compensation.
UncompensatedOffset(old_indirection_table, op_id, i) == old_indirection_table[op_id + 1]

\* indirection_table[i] = old_indirection_table[op_id] + 4 * (op_id - i).  The sum is
\* the distance from slot i to a sub-table that lies behind the vector, so it is
\* positive and the store into the uint32 array does not wrap.
PatchedOffset(old_indirection_table, op_id, i) ==
    old_indirection_table[op_id + 1] + SlotBytes * (op_id - i)

\* A faulty variant of NewId, against which C7 is tested: the operator keeps its id.
KeepId(op_id, i) == op_id

\* op_order[i].id = i
NewId(op_id, i) == i

\* The loop `for i in range(num_operators)` from i on; acc holds the exception
\* raised ("None": none), the offset vector and the operator objects.  op_order[i]
\* past the end of op_order raises IndexError and leaves what the loop has written.
RECURSIVE PatchLoop(_, _, _, _, _)
PatchLoop(op_order, old_indirection_table, num_operators, i, acc) ==
    IF i >= num_operators THEN acc
    ELSE IF i >= Len(op_order) THEN [acc EXCEPT !.err = "IndexError"]
    ELSE LET key == op_order[i + 1]
             op_id == acc.ops[key + 1].id
         IN  PatchLoop(op_order, old_indirection_table, num_operators, i + 1,
                [err |-> "None",
                 table |-> [acc.table EXCEPT
                                ![i + 1] = PatchedOffset(old_indirection_table, op_id, i)],
                 ops |-> [acc.ops EXCEPT ![key + 1].id = NewId(op_id, i)]])

\* self.model_graph.operators.sort(key=lambda op: op.id): a stable sort.
RECURSIVE InsertById(_, _, _)
InsertById(ops, sorted, key) ==
    IF sorted = <<>> THEN <<key>>
    ELSE IF ops[Head(sorted) + 1].id <= ops[key + 1].id
         THEN <<Head(sorted)>> \o InsertById(ops, Tail(sorted), key)
         ELSE <<key>> \o sorted

RECURSIVE SortById(_, _, _)
SortById(ops, operators, k) ==
    IF k = 0 THEN <<>>
    ELSE InsertById(ops, SortById(ops, operators, k - 1), operators[k])

\* optimize_memory: the search (or its cached result), the test for the stored
\* order, and the patch of the offset vector, of the operators' ids and of the
\* operator list.  The result holds what the call printed or raised (ret) and the
\* bytes, graph and peak_usage it leaves.  An exception of the search leaves all
\* three as they were; an IndexError in the patch loop leaves what the loop has
\* written, and the list unsorted.
optimize_memory(bytes, g, cached) ==
    LET r == compute_best_peak_memory_usage(g, cached)
        num_operators == Len(g.operators)
        ordered == correctly_ordered(g, r.order, 0)
        patch == PatchLoop(r.order, bytes.table, num_operators, 0,
                    [err |-> "None", table |-> bytes.table, ops |-> g.ops])
        found == [set |-> TRUE, peak |-> r.peak, order |-> r.order]
    IN  IF r.err # "None"
        THEN [ret |-> r.err, bytes |-> bytes, graph |-> g, peak_usage |-> cached]
        ELSE IF ordered = "True"
        THEN [ret |-> "already optimal", bytes |-> bytes, graph |-> g,
              peak_usage |-> found]
        ELSE IF ordered = "IndexError"
        THEN [ret |-> "IndexError", bytes |-> bytes, graph |-> g, peak_usage |-> found]
        ELSE IF patch.err # "None"
        THEN [ret |-> patch.err,
              bytes |-> [bytes EXCEPT !.table = patch.table],
              graph |-> [g EXCEPT !.ops = patch.ops],
              peak_usage |-> found]
        ELSE [ret |-> "patched",
              bytes |-> [bytes EXCEPT !.table = patch.table],
              graph |-> [g EXCEPT !.ops = patch.ops,
                                  !.operators = SortById(patch.ops, g.operators,
                                                         num_operators)],
              peak_usage |-> found]

\* ------------------------------------------------------------ initial states
\* The models the program is started on.  A model has MaxTensors tensors and 1 to
\* MaxOps operators; the operator stored at position k writes tensor
\* MaxTensors - n + k (so no tensor has two producers) and reads one or two input
\* slots: a tensor, a tensor twice, two tensors, or a tensor and an absent input
\* (-1); the operators of a model have at most MaxSlots slots together.  The
\* tensors no operator writes are graph inputs, except that tensor 0 may be a
\* constant (its size, which the program never reads, is then 1), and the graph
\* outputs are one to MaxOutputs of the written tensors.  Cyclic wirings, stored
\* orders that are not topological, operators that lead to no graph output and
\* graph inputs nothing reads are among them.
Tensors == 0 .. MaxTensors - 1

InputSlots ==
    {<<t>> : t \in Tensors}
        \cup UNION {{<<t, u>> : u \in {v \in Tensors : v >= t} \cup {AbsentIndex}} :
                        t \in Tensors}

RECURSIVE SlotCount(_, _)
SlotCount(slots, k) ==
    IF k > Len(slots) THEN 0 ELSE Len(slots[k]) + SlotCount(slots, k + 1)

\* The elements of a set of numbers as an ascending sequence.
RECURSIVE Ascending(_)
Ascending(S) ==
    IF S = {} THEN <<>>
    ELSE LET m == CHOOSE x \in S : \A y \in S : x <= y
         IN  <<m>> \o Ascending(S \ {m})

\* The serialized model of the sub-tables subs: sub-table k lies behind the vector,
\* the earlier an operator the higher its address (a flatbuffer is written back to
\* front), and slot k holds the distance from itself to it.
MakeBytes(subs, sizes, inputs, outputs) ==
    LET n == Len(subs)
        pos == [k \in 0 .. n - 1 |-> SlotBytes * (n + (n - 1 - k))]
    IN  [sizes |-> [t \in 1 .. MaxTensors |-> sizes[t - 1]],
         heap |-> [a \in {pos[k] : k \in 0 .. n - 1} |->
                    subs[(CHOOSE j \in 0 .. n - 1 : pos[j] = a) + 1]],
         table |-> [i \in 1 .. n |-> pos[i - 1] - SlotAddress(i - 1)],
         inputs |-> inputs,
         outputs |-> outputs]

\* The well-formed models described above.
WellFormedModel(bytes) ==
    \E n \in 1 .. MaxOps :
    \E slots \in [1 .. n -> InputSlots] :
        /\ SlotCount(slots, 1) <= MaxSlots
        /\ \E sizes \in [Tensors -> 1 .. MaxSize] :
           \E inputs \in {0 .. MaxTensors - n - 1, 1 .. MaxTensors - n - 1} :
                /\ 0 \in inputs \/ sizes[0] = 1
                /\ \E outputs \in SUBSET (MaxTensors - n .. MaxTensors - 1) :
                    /\ outputs # {}
                    /\ Cardinality(outputs) <= MaxOutputs
                    /\ bytes = MakeBytes(
                            [k \in 1 .. n |-> [inputs |-> slots[k],
                                               outputs |-> <<MaxTensors - n + k - 1>>]],
                            sizes, Ascending(inputs), Ascending(outputs))

\* Every index a model can hold where a tensor index belongs: the tensors, -1, the
\* other negative numbers a Python list takes, and one past either end.
IndexRange == (0 - MaxTensors - 1) .. MaxTensors

\* Models of one operator whose index lists may be malformed: no input or one, no
\* output, one or two, and one graph output, each index anywhere in IndexRange.
OneOperatorModel(bytes) ==
    \E ins \in {<<>>} \cup {<<j>> : j \in IndexRange} :
    \E outs \in {<<>>, <<MaxTensors - 1, MaxTensors - 1>>} \cup {<<j>> : j \in IndexRange} :
    \E out \in IndexRange :
        bytes = MakeBytes(<<[inputs |-> ins, outputs |-> outs]>>, [t \in Tensors |-> 1],
                          <<0>>, <<out>>)

Init ==
    /\ WellFormedModel(model_bytes) \/ OneOperatorModel(model_bytes)
    /\ model_graph = NoGraph
    /\ peak_usage = NoPeak
    /\ status = "new"
    /\ ret = "None"
    /\ optimized = FALSE

\* ------------------------------------------------------------------ actions
\* TFLiteModel(model_bytes): __init__ runs _build_graph; an exception leaves no
\* model object.
Load ==
    /\ status = "new"
    /\ LET b == BuildGraph(model_bytes)
       IN  IF b.err = "None"
           THEN /\ model_graph' = b.graph
                /\ status' = "ready"
                /\ ret' = "built"
           ELSE /\ model_graph' = model_graph
                /\ status' = "failed"
                /\ ret' = b.err
    /\ UNCHANGED <<model_bytes, peak_usage, optimized>>

\* compute_best_peak_memory_usage()
ComputeBestPeakMemoryUsage ==
    /\ status = "ready"
    /\ LET r == compute_best_peak_memory_usage(model_graph, peak_usage)
       IN  IF r.err = "None"
           THEN /\ peak_usage' = [set |-> TRUE, peak |-> r.peak, order |-> r.order]
                /\ ret' = "computed"
           ELSE /\ peak_usage' = peak_usage
                /\ ret' = r.err
    /\ UNCHANGED <<model_bytes, model_graph, status, optimized>>

\* optimize_memory()
OptimizeMemory ==
    /\ status = "ready"
    /\ LET o == optimize_memory(model_bytes, model_graph, peak_usage)
       IN  /\ model_bytes' = o.bytes
           /\ model_graph' = o.graph
           /\ peak_usage' = o.peak_usage
           /\ ret' = o.ret
           /\ optimized' = (optimized \/ o.ret \in {"patched", "already optimal"})
    /\ UNCHANGED status

\* peak_memory_usage()
PeakMemoryUsage ==
    /\ status = "ready"
    /\ LET r == peak_memory_usage(model_graph)
       IN  ret' = IF r.err = "None" THEN "peak" ELSE r.err
    /\ UNCHANGED <<model_bytes, model_graph, peak_usage, status, optimized>>

\* plot_memory_usage(plot_file)
PlotMemoryUsage ==
    /\ status = "ready"
    /\ ret' = plot_memory_usage(model_graph)
    /\ UNCHANGED <<model_bytes, model_graph, peak_usage, status, optimized>>

Next ==
    \/ Load
    \/ ComputeBestPeakMemoryUsage
    \/ OptimizeMemory
    \/ PeakMemoryUsage
    \/ PlotMemoryUsage

Spec == Init /\ [][Next]_vars

\* ------------------------------------------------- notions the claims use
\* The tensors operator t's producer reads (none for a tensor nothing writes).
InputsOf(g, t) ==
    IF g.producer[t] = None THEN {}
    ELSE Range(non_empty_inputs(g.ops[g.producer[t] + 1]))

\* The tensors reached from S along producer-to-input edges, S included.
RECURSIVE Upstream(_, _)
Upstream(g, S) ==
    LET N == S \cup UNION {InputsOf(g, t) : t \in S}
    IN  IF N = S THEN S ELSE Upstream(g, N)

\* The graph has no producer/input cycle.
Acyclic(g) ==
    \A t \in DOMAIN g.shape_bytes : t \notin Upstream(g, InputsOf(g, t))

\* The stored order is topological: every producer has a smaller id than its
\* output's consumers.
Topological(g) ==
    \A k \in DOMAIN g.ops :
        \A t \in Range(non_empty_inputs(g.ops[k])) :
            g.producer[t] # None => g.ops[g.producer[t] + 1].id < g.ops[k].id

\* The sequence of operator keys order is producer-before-consumer.
TopologicalOrder(g, order) ==
    \A k \in DOMAIN order :
        \A t \in Range(non_empty_inputs(g.ops[order[k] + 1])) :
            g.producer[t] # None => \E j \in 1 .. k - 1 : order[j] = g.producer[t]

\* order holds every operator of the graph exactly once.
EveryOperatorOnce(g, order) ==
    /\ Len(order) = Len(g.ops)
    /\ \A key \in 0 .. Len(g.ops) - 1 : \E k \in DOMAIN order : order[k] = key

\* The orders of all the operators of g.
AllOrders(g) ==
    {p \in [1 .. Len(g.ops) -> 0 .. Len(g.ops) - 1] : EveryOperatorOnce(g, p)}

\* The position (from 0) of operator key in order.
PositionIn(order, key) == (CHOOSE k \in DOMAIN order : order[k] = key) - 1

\* The peak working-set size of the order of all operators: the largest mem_use of
\* the schedule of g with each operator's id set to its position in order.
PeakOfOrder(g, order) ==
    LET renumbered == [g EXCEPT !.ops =
                        [k \in DOMAIN g.ops |->
                            [g.ops[k] EXCEPT !.id = PositionIn(order, k - 1)]]]
    IN  MaxMemUse(_execution_schedule_info(renumbered), 1)

\* The peak working-set size of the stored order.
CurrentPeak(g) == MaxMemUse(_execution_schedule_info(g), 1)

\* Every operator's output is a graph output or leads to one.
AllOperatorsLive(g) ==
    \A k \in DOMAIN g.ops : g.ops[k].output \in Upstream(g, Range(g.outputs))

\* Every graph input is read by an operator, and no graph output is.
InputsReadOutputsFinal(g) ==
    /\ \A t \in DOMAIN g.shape_bytes :
         (g.producer[t] = None /\ ~g.is_constant[t]) => g.consumers[t] # <<>>
    /\ \A t \in Range(g.outputs) : g.consumers[t] = <<>>

\* No graph input is read by two operators, or twice by one.
InputsReadOnce(g) ==
    \A t \in DOMAIN g.shape_bytes : g.producer[t] = None => Len(g.consumers[t]) <= 1

\* ------------------------------------------------------------------ claims
\* C1: for every built acyclic graph, the operator sequence returned by
\* compute_best_peak_memory_usage is a topological order: every non-absent input of
\* an operator of the sequence that has a producer has it at an earlier position.
C1_TopologicalOrder ==
    (status = "ready" /\ peak_usage.set /\ Acyclic(model_graph))
        => TopologicalOrder(model_graph, peak_usage.order)

\* A search has returned three operators, two of them reading another's output, for
\* a model whose stored order is not topological.
C1_Witness ==
    /\ status = "ready" /\ peak_usage.set /\ Acyclic(model_graph)
    /\ ~Topological(model_graph)
    /\ Len(peak_usage.order) = 3
    /\ Cardinality({k \in DOMAIN peak_usage.order :
            \E t \in Range(non_empty_inputs(model_graph.ops[peak_usage.order[k] + 1])) :
                model_graph.producer[t] # None}) >= 2

\* C2: the operator sequence returned by compute_best_peak_memory_usage holds each
\* operator of the graph exactly once (stated for the acyclic graphs, operators that
\* lead to no graph output included).
C2_EveryOperatorOnce ==
    (status = "ready" /\ peak_usage.set /\ Acyclic(model_graph))
        => EveryOperatorOnce(model_graph, peak_usage.order)

\* C3: the peak returned by compute_best_peak_memory_usage is the peak working-set
\* size of the returned sequence (stated for the acyclic graphs whose operators are
\* all returned, whose graph inputs are all read and whose graph outputs are read by
\* no operator; a graph input read by several operators is among them).
C3_PeakOfReturnedOrder ==
    (/\ status = "ready" /\ peak_usage.set /\ Acyclic(model_graph)
     /\ EveryOperatorOnce(model_graph, peak_usage.order)
     /\ InputsReadOutputsFinal(model_graph))
        => peak_usage.peak = PeakOfOrder(model_graph, peak_usage.order)

\* C4: no topological order of the operators has a smaller peak working-set size
\* than the returned one (stated for the same graphs as C3).
C4_ReturnedOrderOptimal ==
    (/\ status = "ready" /\ peak_usage.set /\ Acyclic(model_graph)
     /\ EveryOperatorOnce(model_graph, peak_usage.order)
     /\ InputsReadOutputsFinal(model_graph))
        => \A p \in AllOrders(model_graph) :
                TopologicalOrder(model_graph, p)
                    => PeakOfOrder(model_graph, peak_usage.order)
                            <= PeakOfOrder(model_graph, p)

\* C5: for a model whose stored operator order is topological, the maximum
\* working-set size over the current operator order (the value peak_memory_usage
\* is to report) is not greater after optimize_memory than before it (stated for the
\* calls that return normally on an acyclic graph).
C5_PeakNeverGrows ==
    [][(/\ OptimizeMemory
        /\ Acyclic(model_graph) /\ Topological(model_graph)
        /\ ret' \in {"patched", "already optimal"})
            => CurrentPeak(model_graph') <= CurrentPeak(model_graph)]_vars

\* C6: when optimize_memory has patched the offset vector, the offset in slot i,
\* taken relative to slot i, designates the sub-table that slot op_order[i].id
\* designated before; the designated sub-tables are the same set as before; and the
\* graph rebuilt from the patched bytes has at position i the operator op_order[i].
C6_RewritingCorrect ==
    [][(OptimizeMemory /\ ret' = "patched")
        => LET n == Len(model_graph.operators)
               op_order == peak_usage'.order
               old(i) == model_graph.ops[op_order[i + 1] + 1]
               rebuilt == BuildGraph(model_bytes')
           IN  /\ \A i \in 0 .. n - 1 :
                    OperatorPos(model_bytes', i) = OperatorPos(model_bytes, old(i).id)
               /\ {OperatorPos(model_bytes', i) : i \in 0 .. n - 1}
                    = {OperatorPos(model_bytes, i) : i \in 0 .. n - 1}
               /\ rebuilt.err = "None"
               /\ \A i \in 0 .. n - 1 :
                    /\ rebuilt.graph.ops[i + 1].id = i
                    /\ rebuilt.graph.ops[i + 1].pos = old(i).pos
                    /\ rebuilt.graph.ops[i + 1].inputs = old(i).inputs
                    /\ rebuilt.graph.ops[i + 1].output = old(i).output]_vars

\* optimize_memory has patched a model of three operators and moved every one of
\* them to another position.
C6_Witness ==
    /\ status = "ready" /\ ret = "patched"
    /\ Len(model_graph.ops) = 3
    /\ \A k \in DOMAIN model_graph.ops : model_graph.ops[k].id # k - 1

\* C7: after an optimize_memory that returned normally, a further optimize_memory
\* on the same model object takes the no-op path and leaves the model bytes, the
\* operator ids and the operator sequence as they were.
C7_SecondCallNoOp ==
    [][(optimized /\ OptimizeMemory)
        => /\ ret' = "already optimal"
           /\ model_bytes' = model_bytes
           /\ model_graph' = model_graph]_vars

\* A second optimize_memory has taken the no-op path on a model the first one
\* patched.
C7_Witness ==
    /\ status = "ready" /\ optimized /\ ret = "already optimal"
    /\ \E k \in DOMAIN model_graph.ops : model_graph.ops[k].id # k - 1

\* The smallest peak working-set size of a topological order of all operators.
MinimumPeak(g) ==
    LET peaks == {PeakOfOrder(g, p) : p \in {q \in AllOrders(g) : TopologicalOrder(g, q)}}
    IN  CHOOSE m \in peaks : \A x \in peaks : m <= x

\* C8 as stated: whenever the stored order attains the minimum peak working-set
\* size over all topological orders, ties included, optimize_memory leaves the model
\* bytes identical (stated for the first call on an acyclic graph in topological
\* stored order whose operators all lead to a graph output, whose graph inputs are
\* each read once and whose graph outputs are read by no operator).
C8_IdentityWhenOptimal ==
    [][(/\ OptimizeMemory /\ ~optimized
        /\ Acyclic(model_graph) /\ Topological(model_graph)
        /\ AllOperatorsLive(model_graph)
        /\ InputsReadOutputsFinal(model_graph) /\ InputsReadOnce(model_graph)
        /\ CurrentPeak(model_graph) = MinimumPeak(model_graph))
            => model_bytes' = model_bytes]_vars

\* C8, amended: whenever the order compute_best_peak_memory_usage returns lists the
\* operators in their stored order (op_order[i].id = i for every i), optimize_memory
\* reports that the order is already optimal and leaves the model bytes identical.
C8_IdentityWhenOrderReturned ==
    [][(/\ OptimizeMemory
        /\ LET r == compute_best_peak_memory_usage(model_graph, peak_usage)
           IN  /\ r.err = "None"
               /\ Len(r.order) = Len(model_graph.operators)
               /\ \A i \in 0 .. Len(r.order) - 1 :
                    model_graph.ops[r.order[i + 1] + 1].id = i)
            => ret' = "already optimal" /\ model_bytes' = model_bytes]_vars

\* optimize_memory has found a model of three operators, one of them fed by
\* another, in the order the search returns.
C8_Witness ==
    /\ status = "ready" /\ ret = "already optimal"
    /\ peak_usage.set /\ peak_usage.order = <<0, 1, 2>>
    /\ \A k \in DOMAIN model_graph.ops : model_graph.ops[k].id = k - 1
    /\ \E t \in DOMAIN model_graph.shape_bytes :
            model_graph.producer[t] # None /\ model_graph.consumers[t] # <<>>

\* C9: for every row of the schedule of a built graph in topological stored order,
\* the summed size of the operator's non-absent inputs, the size of its output and
\* the summed size of the other tensors of the working set add up to the row's
\* working-set size (an operator that lists a tensor in two input slots included).
C9_MemoryPartition ==
    (status = "ready" /\ Acyclic(model_graph) /\ Topological(model_graph))
        => LET schedule == _execution_schedule_info(model_graph)
           IN  \A k \in DOMAIN schedule : PartitionAssert(model_graph, schedule[k])

\* C10: a model whose operators form a producer/input cycle is not built, and no
\* tensor of a built graph is a member of its own predecessors.
C10_CycleRejected ==
    status = "ready"
        => /\ Acyclic(model_graph)
           /\ \A t \in model_graph.done : t \notin model_graph.predecessors[t]

\* Some operator of the model holds a tensor index outside 0 .. len(tensors) - 1
\* that is not the -1 of an absent input: in an input slot any such index but -1, in
\* the output slot any such index.
DanglingIndex(bytes) ==
    LET inRange == 0 .. TensorsLength(bytes) - 1
    IN  \E i \in 0 .. OperatorsLength(bytes) - 1 :
            LET sub == bytes.heap[OperatorPos(bytes, i)]
            IN  \/ \E k \in DOMAIN sub.inputs :
                      sub.inputs[k] # AbsentIndex /\ sub.inputs[k] \notin inRange
                \/ \E k \in DOMAIN sub.outputs : sub.outputs[k] \notin inRange

\* C11: building a graph fails whenever an operator's input or output index lies
\* outside 0 .. len(tensors) - 1, -1 in an input slot excepted: no model with an
\* input index below -1 or an output index of -1 is built.
C11_DanglingRejected ==
    (status # "new" /\ DanglingIndex(model_bytes)) => status = "failed"

\* C12: in every state of a constructed model, after build and after any number of
\* optimize_memory calls, model_graph.operators[i].id = i for every index i, and
\* the ids are a permutation of 0 .. N - 1.
C12_PositionIsId ==
    status = "ready"
        => LET g == model_graph
               N == Len(g.operators)
           IN  /\ \A i \in 0 .. N - 1 : g.ops[g.operators[i + 1] + 1].id = i
               /\ {g.ops[k].id : k \in DOMAIN g.ops} = 0 .. N - 1
====
